---- MODULE Spec2Model ----
(***************************************************************************)
(* Model of IntelligentTrafficSystem.ino: a two-road traffic light         *)
(* controller that counts vehicles for 120 s, computes a green split with  *)
(* t(x) = x/(x+y+0.01)*60+30, plays the plan, and lets an emergency button  *)
(* force one road Green.                                                   *)
(*                                                                         *)
(* Time is millis(), in milliseconds.  One step of the model is one whole  *)
(* iteration of loop().                                                    *)
(***************************************************************************)
EXTENDS Integers, Sequences, FiniteSets, TLC

(***************************************************************************)
(* Configuration (lines 69-77 of the sketch), in milliseconds / cm.        *)
(***************************************************************************)
CYCLE_TOTAL_MS == 120 * 1000
SENSOR_POLL_MS == 60
EMERGENCY_GREEN_MS == 10 * 1000
DIST_THRESHOLD_CM == 60
PRESENCE_DEBOUNCE_MS == 80
ABSENCE_DEBOUNCE_MS == 120
\* the literal 3000UL of the yellow segments (lines 332-360)
YELLOW_MS == 3000

(***************************************************************************)
(* unsigned long arithmetic.  millis() values of the model stay far below  *)
(* 2^31, but a difference a - b with a < b wraps to 2^32 - (b - a), which   *)
(* does not fit TLC's integers: a difference is kept as two 16-bit halves. *)
(***************************************************************************)
Half == 2^16

\* (a - b) mod 2^32 as <<high half, low half>>, for 0 <= a, b < 2^31
SubU32(a, b) ==
    IF a >= b
    THEN <<(a - b) \div Half, (a - b) % Half>>
    ELSE <<(Half - 1) - ((b - a - 1) \div Half), (Half - 1) - ((b - a - 1) % Half)>>

\* d >= k for a difference d and a constant 0 <= k < 2^31
GeU32(d, k) ==
    \/ d[1] > k \div Half
    \/ d[1] = k \div Half /\ d[2] >= k % Half

(***************************************************************************)
(* IEEE-754 binary32 arithmetic on non-negative values, round to nearest   *)
(* even, as the float expressions of computeGreenMs evaluate.  A float is  *)
(* [m, e] standing for m * 2^e with 2^23 <= m < 2^24, or m = 0.             *)
(***************************************************************************)
F32Zero == [m |-> 0, e |-> 0]

RECURSIVE BitLen(_)
BitLen(n) == IF n = 0 THEN 0 ELSE 1 + BitLen(n \div 2)

\* the float nearest to M * 2^e (ties to even), 0 <= M < 2^31
RoundF32(M, e) ==
    IF M = 0 THEN F32Zero
    ELSE LET n == BitLen(M) IN
         IF n <= 24
         THEN [m |-> M * 2^(24 - n), e |-> e - (24 - n)]
         ELSE LET k    == n - 24
                  q    == M \div 2^k
                  r    == M % 2^k
                  half == 2^(k - 1)
                  q2   == IF r > half \/ (r = half /\ q % 2 = 1) THEN q + 1 ELSE q
              IN  IF q2 = 2^24 THEN [m |-> 2^23, e |-> e + k + 1]
                               ELSE [m |-> q2, e |-> e + k]

\* (float)n for an unsigned integer n
F32FromUInt(n) == RoundF32(n, 0)

\* the literal 0.01f = 0x3C23D70A = 10737418 * 2^-30
F32Eps == [m |-> 10737418, e |-> -30]

\* n shifted right by d bits, the lowest bit set when a one was shifted out
ShiftSticky(n, d) ==
    LET q == n \div 2^d
    IN  IF n % 2^d # 0 /\ q % 2 = 0 THEN q + 1 ELSE q

\* a + b: the smaller operand is aligned with three extra bits
F32Add(a, b) ==
    IF a.m = 0 THEN b
    ELSE IF b.m = 0 THEN a
    ELSE LET big   == IF a.e >= b.e THEN a ELSE b
             small == IF a.e >= b.e THEN b ELSE a
             d     == big.e - small.e
         IN  IF d > 26 THEN big
             ELSE RoundF32(big.m * 8 + ShiftSticky(small.m * 8, d), big.e - 3)

\* long division: <<quotient, remainder>> of (r * 2^n) by den, r < den
RECURSIVE LongDiv(_, _, _, _)
LongDiv(q, r, den, n) ==
    IF n = 0 THEN <<q, r>>
    ELSE IF 2 * r >= den THEN LongDiv(2 * q + 1, 2 * r - den, den, n - 1)
                         ELSE LongDiv(2 * q, 2 * r, den, n - 1)

\* a / b, b > 0: 26 quotient bits below the leading one, then a sticky bit
F32Div(a, b) ==
    IF a.m = 0 THEN F32Zero
    ELSE LET qr == LongDiv(a.m \div b.m, a.m % b.m, b.m, 26)
             q  == IF qr[2] # 0 /\ qr[1] % 2 = 0 THEN qr[1] + 1 ELSE qr[1]
         IN  RoundF32(q, a.e - b.e - 26)

RECURSIVE OddPart(_)
OddPart(n) == IF n % 2 = 0 THEN OddPart(n \div 2) ELSE n

\* a * (float)k for a small integer constant k (60 = 15 * 2^2, 1000 = 125 * 2^3):
\* the exact product a.m * odd(k) stays below 2^31 and is rounded once
F32MulUInt(a, k) ==
    LET odd == OddPart(k)
        sh  == BitLen(k \div odd) - 1
    IN  RoundF32(a.m * odd, a.e + sh)

\* a < b
F32Lt(a, b) ==
    IF b.m = 0 THEN FALSE
    ELSE IF a.m = 0 THEN TRUE
    ELSE a.e < b.e \/ (a.e = b.e /\ a.m < b.m)

\* (unsigned long)a: truncation toward zero
F32ToULong(a) ==
    IF a.m = 0 THEN 0
    ELSE IF a.e >= 0 THEN a.m * 2^a.e
    ELSE IF -a.e >= 24 THEN 0
    ELSE a.m \div 2^(-a.e)

\* computeGreenMs with the + 0.01f of the denominator forgotten
computeGreenMsNoEps(x, y) ==
    LET denom == F32Add(F32FromUInt(x), F32FromUInt(y))
        ratio == IF F32Lt(F32Zero, denom) THEN F32Div(F32FromUInt(x), denom)
                                          ELSE [m |-> 2^23, e |-> -24]
        tsec0 == F32Add(F32MulUInt(ratio, 60), F32FromUInt(30))
        tsec1 == IF F32Lt(tsec0, F32FromUInt(30)) THEN F32FromUInt(30) ELSE tsec0
        tsec  == IF F32Lt(F32FromUInt(90), tsec1) THEN F32FromUInt(90) ELSE tsec1
    IN  F32ToULong(F32MulUInt(tsec, 1000))

\* computeGreenMs with the other road's count as the numerator
computeGreenMsOtherRoad(x, y) ==
    LET denom == F32Add(F32Add(F32FromUInt(x), F32FromUInt(y)), F32Eps)
        ratio == IF F32Lt(F32Zero, denom) THEN F32Div(F32FromUInt(y), denom)
                                          ELSE [m |-> 2^23, e |-> -24]
        tsec0 == F32Add(F32MulUInt(ratio, 60), F32FromUInt(30))
        tsec1 == IF F32Lt(tsec0, F32FromUInt(30)) THEN F32FromUInt(30) ELSE tsec0
        tsec  == IF F32Lt(F32FromUInt(90), tsec1) THEN F32FromUInt(90) ELSE tsec1
    IN  F32ToULong(F32MulUInt(tsec, 1000))

(***************************************************************************)
(* computeGreenMs (lines 189-197).                                         *)
(***************************************************************************)
computeGreenMs(x, y) ==
    LET denom == F32Add(F32Add(F32FromUInt(x), F32FromUInt(y)), F32Eps)
        ratio == IF F32Lt(F32Zero, denom) THEN F32Div(F32FromUInt(x), denom)
                                          ELSE [m |-> 2^23, e |-> -24]
        tsec0 == F32Add(F32MulUInt(ratio, 60), F32FromUInt(30))
        tsec1 == IF F32Lt(tsec0, F32FromUInt(30)) THEN F32FromUInt(30) ELSE tsec0
        tsec  == IF F32Lt(F32FromUInt(90), tsec1) THEN F32FromUInt(90) ELSE tsec1
    IN  F32ToULong(F32MulUInt(tsec, 1000))

(***************************************************************************)
(* Program state (lines 79-112).  clock is millis(); ledA and ledB are the *)
(* phase last written to each road's three LEDs (setRoadLightsA/B light    *)
(* exactly one of them); serial is what the last iteration of loop()       *)
(* printed.                                                                *)
(***************************************************************************)
VARIABLES clock, lastSensorPoll, cycleStartTime, countA, countB, sA, sB,
          sysState, execPhaseStart, greenDurationA, greenDurationB,
          executingAfirst, emerActive, emerStart, emerRoad, ledA, ledB, serial

(***************************************************************************)
(* History of the run, read by the properties only.                        *)
(*   tick     what the last iteration of loop() saw when it began           *)
(*   emerSeen the last iteration that triggered an emergency                *)
(*   arrivals accepted "presence ON" changes per road since the last reset  *)
(*   episode  polls between the last accepted ON and OFF of each road       *)
(*   presses  iterations so far that read a button LOW                      *)
(*   lastRead the value of now in the last iteration that read the sensors  *)
(*   steady   per road, the presence computed from the readings of the      *)
(*            current run of equal readings in this window, the polls in    *)
(*            the run (up to LongRun), and the changes of `present` and     *)
(*            the passes counted during it                                  *)
(***************************************************************************)
VARIABLES tick, emerSeen, arrivals, episode, presses, lastRead, steady

prog == <<clock, lastSensorPoll, cycleStartTime, countA, countB, sA, sB,
          sysState, execPhaseStart, greenDurationA, greenDurationB,
          executingAfirst, emerActive, emerStart, emerRoad, ledA, ledB, serial>>
vars == <<prog, tick, emerSeen, arrivals, episode, presses, lastRead, steady>>

PHASE_RED == "PHASE_RED"
PHASE_YELLOW == "PHASE_YELLOW"
PHASE_GREEN == "PHASE_GREEN"

STATE_COUNTING == "STATE_COUNTING"
STATE_EXECUTING_TIMES == "STATE_EXECUTING_TIMES"
STATE_EMERGENCY == "STATE_EMERGENCY"

\* SensorState's default member initialisers (lines 88-92)
SensorState == [present |-> FALSE, lastChange |-> 0, waitingForAbsence |-> FALSE]

\* the program state as one record, which the functions below transform
Prog ==
    [clock |-> clock, lastSensorPoll |-> lastSensorPoll,
     cycleStartTime |-> cycleStartTime, countA |-> countA, countB |-> countB,
     sA |-> sA, sB |-> sB, sysState |-> sysState,
     execPhaseStart |-> execPhaseStart, greenDurationA |-> greenDurationA,
     greenDurationB |-> greenDurationB, executingAfirst |-> executingAfirst,
     emerActive |-> emerActive, emerStart |-> emerStart, emerRoad |-> emerRoad,
     ledA |-> ledA, ledB |-> ledB, serial |-> serial]

\* delay(ms): millis() advances by ms
delay(s, ms) == [s EXCEPT !.clock = @ + ms]

setRoadLightsA(s, p) == [s EXCEPT !.ledA = p]

setRoadLightsB(s, p) == [s EXCEPT !.ledB = p]

(***************************************************************************)
(* measureDistanceCM (lines 136-150).  The echo is an input: d = -1 when   *)
(* pulseIn times out after 30 ms, else duration / 58 for a pulse of         *)
(* 58*d microseconds, during which pulseIn blocks.                          *)
(***************************************************************************)
PULSE_TIMEOUT_MS == 30

measureMs(d) == IF d = -1 THEN PULSE_TIMEOUT_MS ELSE (d * 58) \div 1000

\* updateSensor counting the vehicle when it arrives instead of when it leaves
updateSensorCountOnArrival(s0, road, d) ==
    LET s         == [s0 EXCEPT !.clock = @ + (IF d = -1 THEN 30 ELSE (d * 58) \div 1000)]
        now       == s.clock
        isPresent == d > 0 /\ d <= DIST_THRESHOLD_CM
        sen       == IF road = 1 THEN s.sA ELSE s.sB
        counter   == IF road = 1 THEN s.countA ELSE s.countB
        debounce  == IF isPresent THEN PRESENCE_DEBOUNCE_MS ELSE ABSENCE_DEBOUNCE_MS
        accept    == isPresent # sen.present
                     /\ GeU32(SubU32(now, sen.lastChange), debounce)
        sen2      == [present |-> isPresent, lastChange |-> now,
                      waitingForAbsence |-> isPresent]
        counter2  == IF isPresent THEN (counter + 1) % 2^16 ELSE counter
        out       == IF isPresent
                     THEN <<IF road = 1 THEN "SensorA presence ON" ELSE "SensorB presence ON">>
                     ELSE <<IF road = 1 THEN "SensorA presence OFF" ELSE "SensorB presence OFF">>
    IN  IF ~accept THEN s
        ELSE IF road = 1
        THEN [s EXCEPT !.sA = sen2, !.countA = counter2, !.serial = @ \o out]
        ELSE [s EXCEPT !.sB = sen2, !.countB = counter2, !.serial = @ \o out]

\* updateSensor leaving waitingForAbsence set when the pass is counted
updateSensorFlagKept(s0, road, d) ==
    LET s         == [s0 EXCEPT !.clock = @ + (IF d = -1 THEN 30 ELSE (d * 58) \div 1000)]
        now       == s.clock
        isPresent == d > 0 /\ d <= DIST_THRESHOLD_CM
        sen       == IF road = 1 THEN s.sA ELSE s.sB
        counter   == IF road = 1 THEN s.countA ELSE s.countB
        debounce  == IF isPresent THEN PRESENCE_DEBOUNCE_MS ELSE ABSENCE_DEBOUNCE_MS
        accept    == isPresent # sen.present
                     /\ GeU32(SubU32(now, sen.lastChange), debounce)
        pass      == accept /\ ~isPresent /\ sen.waitingForAbsence
        sen2      == [present |-> isPresent, lastChange |-> now,
                      waitingForAbsence |-> isPresent \/ sen.waitingForAbsence]
        counter2  == IF pass THEN (counter + 1) % 2^16 ELSE counter
        out       == IF isPresent
                     THEN <<IF road = 1 THEN "SensorA presence ON" ELSE "SensorB presence ON">>
                     ELSE (IF pass
                           THEN <<IF road = 1 THEN "SensorA PASS counted"
                                              ELSE "SensorB PASS counted">>
                           ELSE <<>>)
                          \o <<IF road = 1 THEN "SensorA presence OFF"
                                           ELSE "SensorB presence OFF">>
    IN  IF ~accept THEN s
        ELSE IF road = 1
        THEN [s EXCEPT !.sA = sen2, !.countA = counter2, !.serial = @ \o out]
        ELSE [s EXCEPT !.sB = sen2, !.countB = counter2, !.serial = @ \o out]

\* updateSensor without edge detection: once the debounce interval has passed
\* the reading is taken as it is, and every absent reading taken counts a pass
updateSensorLevelTriggered(s0, road, d) ==
    LET s         == [s0 EXCEPT !.clock = @ + (IF d = -1 THEN 30 ELSE (d * 58) \div 1000)]
        now       == s.clock
        isPresent == d > 0 /\ d <= DIST_THRESHOLD_CM
        sen       == IF road = 1 THEN s.sA ELSE s.sB
        counter   == IF road = 1 THEN s.countA ELSE s.countB
        debounce  == IF isPresent THEN PRESENCE_DEBOUNCE_MS ELSE ABSENCE_DEBOUNCE_MS
        accept    == GeU32(SubU32(now, sen.lastChange), debounce)
        sen2      == [present |-> isPresent, lastChange |-> now,
                      waitingForAbsence |-> isPresent]
        counter2  == IF isPresent THEN counter ELSE (counter + 1) % 2^16
        out       == IF isPresent
                     THEN <<IF road = 1 THEN "SensorA presence ON" ELSE "SensorB presence ON">>
                     ELSE <<IF road = 1 THEN "SensorA PASS counted" ELSE "SensorB PASS counted",
                            IF road = 1 THEN "SensorA presence OFF" ELSE "SensorB presence OFF">>
    IN  IF ~accept THEN s
        ELSE IF road = 1
        THEN [s EXCEPT !.sA = sen2, !.countA = counter2, !.serial = @ \o out]
        ELSE [s EXCEPT !.sB = sen2, !.countB = counter2, !.serial = @ \o out]

\* isPresent taking every distance that is not a timeout, 0 included
IsPresentFromZero(d) == d >= 0 /\ d <= DIST_THRESHOLD_CM

(***************************************************************************)
(* updateSensor (lines 153-186) for road 1 (sA, countA, "SensorA") or road *)
(* 2 (sB, countB, "SensorB"), with the distance d that was measured.       *)
(***************************************************************************)
\* line 156
IsPresent(d) == d > 0 /\ d <= DIST_THRESHOLD_CM

MsgPresenceOn(road) == IF road = 1 THEN "SensorA presence ON" ELSE "SensorB presence ON"

MsgPass(road) == IF road = 1 THEN "SensorA PASS counted" ELSE "SensorB PASS counted"

MsgPresenceOff(road) == IF road = 1 THEN "SensorA presence OFF" ELSE "SensorB presence OFF"

MsgEmergency(road) == IF road = 1 THEN "*** EMERGENCY on road A ***" ELSE "*** EMERGENCY on road B ***"

MsgExecution == "--- Execution Phase Starting ---"

MsgEmergencyEnded == "*** Emergency ended, restarting counting cycle ***"

MsgNewCycle == "--- New Counting Cycle Started ---"

updateSensor(s0, road, d) ==
    LET s         == delay(s0, measureMs(d))
        now       == s.clock
        isPresent == IsPresent(d)
        sen       == IF road = 1 THEN s.sA ELSE s.sB
        counter   == IF road = 1 THEN s.countA ELSE s.countB
        debounce  == IF isPresent THEN PRESENCE_DEBOUNCE_MS ELSE ABSENCE_DEBOUNCE_MS
        accept    == isPresent # sen.present
                     /\ GeU32(SubU32(now, sen.lastChange), debounce)
        pass      == accept /\ ~isPresent /\ sen.waitingForAbsence
        sen2      == [present |-> isPresent, lastChange |-> now,
                      waitingForAbsence |-> IF isPresent THEN TRUE
                                            ELSE IF pass THEN FALSE
                                            ELSE sen.waitingForAbsence]
        counter2  == IF pass THEN (counter + 1) % 2^16 ELSE counter
        out       == IF ~accept THEN <<>>
                     ELSE IF isPresent THEN <<MsgPresenceOn(road)>>
                     ELSE (IF pass THEN <<MsgPass(road)>> ELSE <<>>)
                          \o <<MsgPresenceOff(road)>>
    IN  IF ~accept THEN s
        ELSE IF road = 1
        THEN [s EXCEPT !.sA = sen2, !.countA = counter2, !.serial = @ \o out]
        ELSE [s EXCEPT !.sB = sen2, !.countB = counter2, !.serial = @ \o out]

\* startExecutionPhase computing road B's green time from the formula as well
startExecutionPhaseBothComputed(s) ==
    LET first == s.countA >= s.countB
        t     == [s EXCEPT !.greenDurationA = computeGreenMs(s.countA, s.countB),
                           !.greenDurationB = computeGreenMs(s.countB, s.countA),
                           !.executingAfirst = first,
                           !.sysState = STATE_EXECUTING_TIMES,
                           !.execPhaseStart = s.clock,
                           !.serial = Append(@, MsgExecution)]
    IN  IF first
        THEN setRoadLightsB(setRoadLightsA(t, PHASE_GREEN), PHASE_RED)
        ELSE setRoadLightsB(setRoadLightsA(t, PHASE_RED), PHASE_GREEN)

\* startExecutionPhase serving the quieter road first
startExecutionPhaseQuieterFirst(s) ==
    LET gA    == computeGreenMs(s.countA, s.countB)
        first == s.countA <= s.countB
        t     == [s EXCEPT !.greenDurationA = gA,
                           !.greenDurationB = CYCLE_TOTAL_MS - gA,
                           !.executingAfirst = first,
                           !.sysState = STATE_EXECUTING_TIMES,
                           !.execPhaseStart = s.clock,
                           !.serial = Append(@, MsgExecution)]
    IN  IF first
        THEN setRoadLightsB(setRoadLightsA(t, PHASE_GREEN), PHASE_RED)
        ELSE setRoadLightsB(setRoadLightsA(t, PHASE_RED), PHASE_GREEN)

\* startExecutionPhase taking the two yellow segments out of road B's share
startExecutionPhaseYellowDeducted(s) ==
    LET gA    == computeGreenMs(s.countA, s.countB)
        first == s.countA >= s.countB
        t     == [s EXCEPT !.greenDurationA = gA,
                           !.greenDurationB = CYCLE_TOTAL_MS - gA - 2 * YELLOW_MS,
                           !.executingAfirst = first,
                           !.sysState = STATE_EXECUTING_TIMES,
                           !.execPhaseStart = s.clock,
                           !.serial = Append(@, MsgExecution)]
    IN  IF first
        THEN setRoadLightsB(setRoadLightsA(t, PHASE_GREEN), PHASE_RED)
        ELSE setRoadLightsB(setRoadLightsA(t, PHASE_RED), PHASE_GREEN)

\* startExecutionPhase breaking a tie in favour of road B
startExecutionPhaseTieToB(s) ==
    LET gA    == computeGreenMs(s.countA, s.countB)
        first == s.countA > s.countB
        t     == [s EXCEPT !.greenDurationA = gA,
                           !.greenDurationB = CYCLE_TOTAL_MS - gA,
                           !.executingAfirst = first,
                           !.sysState = STATE_EXECUTING_TIMES,
                           !.execPhaseStart = s.clock,
                           !.serial = Append(@, MsgExecution)]
    IN  IF first
        THEN setRoadLightsB(setRoadLightsA(t, PHASE_GREEN), PHASE_RED)
        ELSE setRoadLightsB(setRoadLightsA(t, PHASE_RED), PHASE_GREEN)

(***************************************************************************)
(* startExecutionPhase (lines 200-226).                                    *)
(***************************************************************************)
startExecutionPhase(s) ==
    LET gA    == computeGreenMs(s.countA, s.countB)
        first == s.countA >= s.countB
        t     == [s EXCEPT !.greenDurationA = gA,
                           !.greenDurationB = CYCLE_TOTAL_MS - gA,
                           !.executingAfirst = first,
                           !.sysState = STATE_EXECUTING_TIMES,
                           !.execPhaseStart = s.clock,
                           !.serial = Append(@, MsgExecution)]
    IN  IF first
        THEN setRoadLightsB(setRoadLightsA(t, PHASE_GREEN), PHASE_RED)
        ELSE setRoadLightsB(setRoadLightsA(t, PHASE_RED), PHASE_GREEN)

\* triggerEmergency ignoring a request while an emergency is active
triggerEmergencyFirstWins(s, road) ==
    IF s.emerActive THEN s
    ELSE LET t == [s EXCEPT !.emerActive = TRUE,
                            !.emerStart = s.clock,
                            !.emerRoad = road,
                            !.sysState = STATE_EMERGENCY,
                            !.serial = Append(@, MsgEmergency(road))]
         IN  IF road = 1
             THEN setRoadLightsB(setRoadLightsA(t, PHASE_GREEN), PHASE_RED)
             ELSE setRoadLightsB(setRoadLightsA(t, PHASE_RED), PHASE_GREEN)

\* triggerEmergency turning the emergency road Green and leaving the other road
triggerEmergencyGreenOnly(s, road) ==
    LET t == [s EXCEPT !.emerActive = TRUE,
                       !.emerStart = s.clock,
                       !.emerRoad = road,
                       !.sysState = STATE_EMERGENCY,
                       !.serial = Append(@, MsgEmergency(road))]
    IN  IF road = 1 THEN setRoadLightsA(t, PHASE_GREEN)
                    ELSE setRoadLightsB(t, PHASE_GREEN)

(***************************************************************************)
(* triggerEmergency (lines 229-244), road 1 = A, 2 = B.                    *)
(***************************************************************************)
triggerEmergency(s, road) ==
    LET t == [s EXCEPT !.emerActive = TRUE,
                       !.emerStart = s.clock,
                       !.emerRoad = road,
                       !.sysState = STATE_EMERGENCY,
                       !.serial = Append(@, MsgEmergency(road))]
    IN  IF road = 1
        THEN setRoadLightsB(setRoadLightsA(t, PHASE_GREEN), PHASE_RED)
        ELSE setRoadLightsB(setRoadLightsA(t, PHASE_RED), PHASE_GREEN)

\* resetCountingCycle also putting both roads back to Red
resetCountingCycleAllRed(s) ==
    [s EXCEPT !.countA = 0, !.countB = 0,
              !.sA = SensorState, !.sB = SensorState,
              !.cycleStartTime = s.clock,
              !.sysState = STATE_COUNTING,
              !.lastSensorPoll = 0,
              !.ledA = PHASE_RED, !.ledB = PHASE_RED,
              !.serial = Append(@, MsgNewCycle)]

\* resetCountingCycle leaving the counters as they are
resetCountingCycleKeepCounts(s) ==
    [s EXCEPT !.sA = SensorState, !.sB = SensorState,
              !.cycleStartTime = s.clock,
              !.sysState = STATE_COUNTING,
              !.lastSensorPoll = 0,
              !.serial = Append(@, MsgNewCycle)]

(***************************************************************************)
(* resetCountingCycle (lines 247-254).                                     *)
(***************************************************************************)
resetCountingCycle(s) ==
    [s EXCEPT !.countA = 0, !.countB = 0,
              !.sA = SensorState, !.sB = SensorState,
              !.cycleStartTime = s.clock,
              !.sysState = STATE_COUNTING,
              !.lastSensorPoll = 0,
              !.serial = Append(@, MsgNewCycle)]

(***************************************************************************)
(* loop (lines 290-387), up to its final delay(1).  The inputs of one      *)
(* iteration: btnA, btnB say what the two digitalRead calls of a button    *)
(* return ("up": HIGH; "bounce": LOW, then HIGH after the 10 ms debounce;  *)
(* "down": LOW twice), dA, dB are the echoes measured if the sensors are   *)
(* polled.                                                                 *)
(***************************************************************************)
BUTTON_DEBOUNCE_MS == 10

checkButton(s, btn, road) ==
    IF btn = "up" THEN s
    ELSE IF btn = "down" THEN triggerEmergency(delay(s, BUTTON_DEBOUNCE_MS), road)
    ELSE delay(s, BUTTON_DEBOUNCE_MS)

\* loopCounting with > for >= : the window runs one iteration too long
loopCountingLate(s, now, dA, dB) ==
    LET t == IF GeU32(SubU32(now, s.lastSensorPoll), SENSOR_POLL_MS)
             THEN updateSensor(updateSensor([s EXCEPT !.lastSensorPoll = now], 1, dA), 2, dB)
             ELSE s
    IN  IF GeU32(SubU32(now, t.cycleStartTime), CYCLE_TOTAL_MS + 1)
        THEN startExecutionPhase(t)
        ELSE t

\* loopCounting holding both roads Red while the vehicles are counted
loopCountingAllRed(s, now, dA, dB) ==
    LET r == setRoadLightsB(setRoadLightsA(s, PHASE_RED), PHASE_RED)
        t == IF GeU32(SubU32(now, r.lastSensorPoll), SENSOR_POLL_MS)
             THEN updateSensor(updateSensor([r EXCEPT !.lastSensorPoll = now], 1, dA), 2, dB)
             ELSE r
    IN  IF GeU32(SubU32(now, t.cycleStartTime), CYCLE_TOTAL_MS)
        THEN startExecutionPhase(t)
        ELSE t

\* case STATE_COUNTING (lines 312-324)
loopCounting(s, now, dA, dB) ==
    LET t == IF GeU32(SubU32(now, s.lastSensorPoll), SENSOR_POLL_MS)
             THEN updateSensor(updateSensor([s EXCEPT !.lastSensorPoll = now], 1, dA), 2, dB)
             ELSE s
    IN  IF GeU32(SubU32(now, t.cycleStartTime), CYCLE_TOTAL_MS)
        THEN startExecutionPhase(t)
        ELSE t

\* loopExecuting with <= for < : a boundary sample stays in the segment it leaves
loopExecutingClosed(s, now) ==
    LET elapsed == SubU32(now, s.execPhaseStart)
        Lt(k)   == ~GeU32(elapsed, k + 1)
        gA      == s.greenDurationA
        gB      == s.greenDurationB
    IN  IF s.executingAfirst
        THEN IF Lt(gA) THEN s
             ELSE IF Lt(gA + YELLOW_MS)
                  THEN setRoadLightsB(setRoadLightsA(s, PHASE_YELLOW), PHASE_RED)
             ELSE IF Lt(gA + YELLOW_MS + gB)
                  THEN setRoadLightsB(setRoadLightsA(s, PHASE_RED), PHASE_GREEN)
             ELSE IF Lt(gA + YELLOW_MS + gB + YELLOW_MS)
                  THEN setRoadLightsB(setRoadLightsA(s, PHASE_RED), PHASE_YELLOW)
             ELSE resetCountingCycle(s)
        ELSE IF Lt(gB) THEN s
             ELSE IF Lt(gB + YELLOW_MS)
                  THEN setRoadLightsB(setRoadLightsA(s, PHASE_RED), PHASE_YELLOW)
             ELSE IF Lt(gB + YELLOW_MS + gA)
                  THEN setRoadLightsB(setRoadLightsA(s, PHASE_GREEN), PHASE_RED)
             ELSE IF Lt(gB + YELLOW_MS + gA + YELLOW_MS)
                  THEN setRoadLightsB(setRoadLightsA(s, PHASE_YELLOW), PHASE_RED)
             ELSE resetCountingCycle(s)

\* case STATE_EXECUTING_TIMES (lines 326-371); the sums stay far below 2^32
loopExecuting(s, now) ==
    LET elapsed == SubU32(now, s.execPhaseStart)
        Lt(k)   == ~GeU32(elapsed, k)
        gA      == s.greenDurationA
        gB      == s.greenDurationB
    IN  IF s.executingAfirst
        THEN IF Lt(gA) THEN s
             ELSE IF Lt(gA + YELLOW_MS)
                  THEN setRoadLightsB(setRoadLightsA(s, PHASE_YELLOW), PHASE_RED)
             ELSE IF Lt(gA + YELLOW_MS + gB)
                  THEN setRoadLightsB(setRoadLightsA(s, PHASE_RED), PHASE_GREEN)
             ELSE IF Lt(gA + YELLOW_MS + gB + YELLOW_MS)
                  THEN setRoadLightsB(setRoadLightsA(s, PHASE_RED), PHASE_YELLOW)
             ELSE resetCountingCycle(s)
        ELSE IF Lt(gB) THEN s
             ELSE IF Lt(gB + YELLOW_MS)
                  THEN setRoadLightsB(setRoadLightsA(s, PHASE_RED), PHASE_YELLOW)
             ELSE IF Lt(gB + YELLOW_MS + gA)
                  THEN setRoadLightsB(setRoadLightsA(s, PHASE_GREEN), PHASE_RED)
             ELSE IF Lt(gB + YELLOW_MS + gA + YELLOW_MS)
                  THEN setRoadLightsB(setRoadLightsA(s, PHASE_YELLOW), PHASE_RED)
             ELSE resetCountingCycle(s)

\* case STATE_EMERGENCY (lines 373-382)
loopEmergency(s, now) ==
    IF GeU32(SubU32(now, s.emerStart), EMERGENCY_GREEN_MS)
    THEN resetCountingCycle(
             [s EXCEPT !.emerActive = FALSE, !.emerRoad = 0,
                       !.serial = Append(@, MsgEmergencyEnded)])
    ELSE s

\* loop with the sensors read in the other modes too, whenever a poll is due
loopPollsInEveryMode(s0, btnA, btnB, dA, dB) ==
    LET now == s0.clock
        s1  == checkButton([s0 EXCEPT !.serial = <<>>], btnA, 1)
        s2  == checkButton(s1, btnB, 2)
        s3  == IF /\ s2.sysState # STATE_COUNTING
                  /\ GeU32(SubU32(now, s2.lastSensorPoll), SENSOR_POLL_MS)
               THEN updateSensor(updateSensor([s2 EXCEPT !.lastSensorPoll = now], 1, dA), 2, dB)
               ELSE s2
    IN  CASE s3.sysState = STATE_COUNTING        -> loopCounting(s3, now, dA, dB)
          [] s3.sysState = STATE_EXECUTING_TIMES -> loopExecuting(s3, now)
          [] s3.sysState = STATE_EMERGENCY       -> loopEmergency(s3, now)

loop(s0, btnA, btnB, dA, dB) ==
    LET now == s0.clock
        s1  == checkButton([s0 EXCEPT !.serial = <<>>], btnA, 1)
        s2  == checkButton(s1, btnB, 2)
    IN  CASE s2.sysState = STATE_COUNTING        -> loopCounting(s2, now, dA, dB)
          [] s2.sysState = STATE_EXECUTING_TIMES -> loopExecuting(s2, now)
          [] s2.sysState = STATE_EMERGENCY       -> loopEmergency(s2, now)

(***************************************************************************)
(* setup (lines 259-288): delay(100), both roads Red, resetCountingCycle.  *)
(***************************************************************************)
SETUP_DELAY_MS == 100

NoTick ==
    [now |-> 0, state |-> STATE_COUNTING, btnA |-> "up", btnB |-> "up",
     countA |-> 0, countB |-> 0, presentA |-> FALSE, presentB |-> FALSE,
     ledA |-> PHASE_RED, ledB |-> PHASE_RED, polled |-> FALSE,
     dA |-> -1, dB |-> -1, lastA |-> 0, lastB |-> 0, gap |-> SENSOR_POLL_MS]

LongRun == 3

NoRun == [present |-> FALSE, polls |-> 0, changes |-> 0, passes |-> 0]

NoEmergency ==
    [road |-> 0, at |-> 0, from |-> STATE_COUNTING, ledA |-> PHASE_RED, ledB |-> PHASE_RED]

Init ==
    /\ clock = SETUP_DELAY_MS
    /\ lastSensorPoll = 0
    /\ cycleStartTime = SETUP_DELAY_MS
    /\ countA = 0 /\ countB = 0
    /\ sA = SensorState /\ sB = SensorState
    /\ sysState = STATE_COUNTING
    /\ execPhaseStart = 0
    /\ greenDurationA = 60 * 1000 /\ greenDurationB = 60 * 1000
    /\ executingAfirst = TRUE
    /\ emerActive = FALSE /\ emerStart = 0 /\ emerRoad = 0
    /\ ledA = PHASE_RED /\ ledB = PHASE_RED
    /\ serial = <<MsgNewCycle>>
    /\ tick = NoTick
    /\ emerSeen = NoEmergency
    /\ arrivals = <<0, 0>>
    /\ episode = <<0, 0>>
    /\ presses = 0
    /\ lastRead = 0
    /\ steady = <<NoRun, NoRun>>

(***************************************************************************)
(* One iteration of loop().  t is the program state when the body of       *)
(* loop() has run on the current state; the final delay(1) and idle more   *)
(* milliseconds pass before the next iteration samples millis().           *)
(***************************************************************************)
Printed(log, msg) == \E i \in 1..Len(log) : log[i] = msg

Triggered(btnA, btnB) ==
    (IF btnA = "down" THEN <<1>> ELSE <<>>) \o (IF btnB = "down" THEN <<2>> ELSE <<>>)

Step(t, btnA, btnB, dA, dB, idle) ==
    LET polled == t.lastSensorPoll = clock
        reset  == Printed(t.serial, MsgNewCycle)
        trig   == Triggered(btnA, btnB)
        Run(old, d, changed, passed) ==
            LET on == old.polls > 0 /\ old.present = IsPresent(d)
            IN  IF reset THEN NoRun
                ELSE IF ~polled THEN old
                ELSE [present |-> IsPresent(d),
                      polls   |-> IF on /\ old.polls < LongRun THEN old.polls + 1
                                  ELSE IF on THEN LongRun ELSE 1,
                      changes |-> (IF on THEN old.changes ELSE 0)
                                  + (IF changed THEN 1 ELSE 0),
                      passes  |-> (IF on THEN old.passes ELSE 0)
                                  + (IF passed THEN 1 ELSE 0)]
        Arr(road, n) == IF reset THEN 0
                        ELSE IF Printed(t.serial, MsgPresenceOn(road)) THEN n + 1 ELSE n
        Epi(road, was, n) == IF reset THEN 0
                             ELSE IF Printed(t.serial, MsgPresenceOn(road)) THEN 1
                             ELSE IF polled /\ was THEN n + 1 ELSE n
    IN  /\ clock' = t.clock + 1 + idle
        /\ lastSensorPoll' = t.lastSensorPoll
        /\ cycleStartTime' = t.cycleStartTime
        /\ countA' = t.countA /\ countB' = t.countB
        /\ sA' = t.sA /\ sB' = t.sB
        /\ sysState' = t.sysState
        /\ execPhaseStart' = t.execPhaseStart
        /\ greenDurationA' = t.greenDurationA
        /\ greenDurationB' = t.greenDurationB
        /\ executingAfirst' = t.executingAfirst
        /\ emerActive' = t.emerActive
        /\ emerStart' = t.emerStart
        /\ emerRoad' = t.emerRoad
        /\ ledA' = t.ledA /\ ledB' = t.ledB
        /\ serial' = t.serial
        /\ tick' = [now |-> clock, state |-> sysState, btnA |-> btnA, btnB |-> btnB,
                    countA |-> countA, countB |-> countB,
                    presentA |-> sA.present, presentB |-> sB.present,
                    ledA |-> ledA, ledB |-> ledB, polled |-> polled,
                    dA |-> IF polled THEN dA ELSE -1,
                    dB |-> IF polled THEN dB ELSE -1,
                    lastA |-> sA.lastChange, lastB |-> sB.lastChange,
                    gap |-> IF polled /\ lastRead > 0 /\ clock - lastRead < SENSOR_POLL_MS
                            THEN clock - lastRead ELSE SENSOR_POLL_MS]
        /\ emerSeen' = IF Len(trig) = 1
                       THEN [road |-> trig[1], at |-> t.emerStart, from |-> sysState,
                             ledA |-> ledA, ledB |-> ledB]
                       ELSE IF Len(trig) = 2 THEN NoEmergency
                       ELSE emerSeen
        /\ arrivals' = <<Arr(1, arrivals[1]), Arr(2, arrivals[2])>>
        /\ episode' = <<Epi(1, sA.present, episode[1]), Epi(2, sB.present, episode[2])>>
        /\ presses' = IF btnA = "up" /\ btnB = "up" THEN presses ELSE presses + 1
        /\ lastRead' = IF polled THEN clock ELSE lastRead
        /\ steady' = <<Run(steady[1], dA, t.sA.present # sA.present, t.countA # countA),
                       Run(steady[2], dB, t.sB.present # sB.present, t.countB # countB)>>

Buttons == {"up", "bounce", "down"}

\* whether loop() entered on the current state with these buttons reads the sensors
WillPoll(btnA, btnB) ==
    /\ btnA # "down" /\ btnB # "down"
    /\ sysState = STATE_COUNTING
    /\ GeU32(SubU32(clock, lastSensorPoll), SENSOR_POLL_MS)

\* the button inputs allowed while fewer than max iterations have seen a button LOW
ButtonInputs(B, max) ==
    IF presses < max THEN B \X B ELSE {<<"up", "up">>}

(***************************************************************************)
(* Spec: the controller from setup() on, watched at the pace of the sensor *)
(* polls for the first MaxPollClock milliseconds.  The next iteration      *)
(* begins at (or one millisecond before) the instant the next poll or the  *)
(* next debounce interval is due, or at once (after the delay(1)) when     *)
(* this iteration polled or none of these instants lies ahead.  At most    *)
(* MaxPollPresses iterations find a button held down.                      *)
(***************************************************************************)
MaxPollClock == 300

MaxPollPresses == 1

\* echoes: a timeout, the threshold distance, and one centimetre past it
Echoes == {-1, DIST_THRESHOLD_CM, DIST_THRESHOLD_CM + 1}

Around(B, from) == {n \in B \cup {b - 1 : b \in B} : n >= from}

PollInstants(t, polled) ==
    LET ahead == Around({t.lastSensorPoll + SENSOR_POLL_MS,
                         t.sA.lastChange + (IF t.sA.present THEN ABSENCE_DEBOUNCE_MS
                                                            ELSE PRESENCE_DEBOUNCE_MS),
                         t.sB.lastChange + (IF t.sB.present THEN ABSENCE_DEBOUNCE_MS
                                                            ELSE PRESENCE_DEBOUNCE_MS)},
                        t.clock + 1)
    IN  IF polled \/ ahead = {} THEN ahead \cup {t.clock + 1} ELSE ahead

Next ==
    \E btn \in ButtonInputs({"up", "down"}, MaxPollPresses) :
        \E dA \in IF WillPoll(btn[1], btn[2]) THEN Echoes ELSE {-1},
           dB \in IF WillPoll(btn[1], btn[2]) THEN Echoes ELSE {-1} :
            LET t == loop(Prog, btn[1], btn[2], dA, dB)
            IN  \E n \in PollInstants(t, WillPoll(btn[1], btn[2])) :
                    /\ n <= MaxPollClock
                    /\ Step(t, btn[1], btn[2], dA, dB, n - t.clock - 1)

Spec == Init /\ [][Next]_vars

(***************************************************************************)
(* SpecEcho: the first polls after setup(), no button pressed, with echoes *)
(* from EchoRange: no echo, the shortest echoes (under 58 us: 0 cm, then   *)
(* 1 cm), the threshold distance and one centimetre past it.  An iteration *)
(* begins whenever the clock has not passed MaxEchoClock.                  *)
(***************************************************************************)
EchoRange == {-1, 0, 1, DIST_THRESHOLD_CM, DIST_THRESHOLD_CM + 1}

MaxEchoClock == 160

NextEcho ==
    /\ clock <= MaxEchoClock
    /\ \E dA \in IF WillPoll("up", "up") THEN EchoRange ELSE {-1},
          dB \in IF WillPoll("up", "up") THEN EchoRange ELSE {-1} :
           LET t == loop(Prog, "up", "up", dA, dB)
           IN  \E n \in PollInstants(t, WillPoll("up", "up")) :
                   Step(t, "up", "up", dA, dB, n - t.clock - 1)

SpecEcho == Init /\ [][NextEcho]_vars

(***************************************************************************)
(* Whole counting and execution windows.  A run starts at setup(), or      *)
(* half-way through the first counting window with a passes counted on     *)
(* road A and b on road B (one pass per 240 ms from setup on, the sensors  *)
(* idle since).  The sensors see no echo.  The next iteration begins at    *)
(* (or one millisecond before) the end of the counting window, a segment   *)
(* boundary of the plan or the end of the emergency green time, or at once *)
(* (after the delay(1)) when none of these instants lies ahead.            *)
(***************************************************************************)
IdleSensor(passes, lastDeparture) ==
    IF passes = 0 THEN SensorState
    ELSE [present |-> FALSE, lastChange |-> lastDeparture, waitingForAbsence |-> FALSE]

InitWindow(Counts) ==
    \E a \in Counts, b \in Counts :
        IF a = 0 /\ b = 0 THEN Init
        ELSE /\ clock = SETUP_DELAY_MS + CYCLE_TOTAL_MS \div 2
             /\ lastSensorPoll = clock - SENSOR_POLL_MS
             /\ cycleStartTime = SETUP_DELAY_MS
             /\ countA = a /\ countB = b
             /\ sA = IdleSensor(a, SETUP_DELAY_MS + 240 * a - 117)
             /\ sB = IdleSensor(b, SETUP_DELAY_MS + 240 * b - 114)
             /\ sysState = STATE_COUNTING
             /\ execPhaseStart = 0
             /\ greenDurationA = 60 * 1000 /\ greenDurationB = 60 * 1000
             /\ executingAfirst = TRUE
             /\ emerActive = FALSE /\ emerStart = 0 /\ emerRoad = 0
             /\ ledA = PHASE_RED /\ ledB = PHASE_RED
             /\ serial = <<>>
             /\ tick = [NoTick EXCEPT !.now = lastSensorPoll, !.countA = a, !.countB = b,
                                      !.polled = TRUE]
             /\ emerSeen = NoEmergency
             /\ arrivals = <<a, b>>
             /\ episode = <<0, 0>>
             /\ presses = 0
             /\ lastRead = lastSensorPoll
             /\ steady = <<NoRun, NoRun>>

\* the instants at which the lights of the plan change, and its end
PlanBoundaries(t) ==
    LET d1 == IF t.executingAfirst THEN t.greenDurationA ELSE t.greenDurationB
        d2 == IF t.executingAfirst THEN t.greenDurationB ELSE t.greenDurationA
    IN  {t.execPhaseStart + d1,
         t.execPhaseStart + d1 + YELLOW_MS,
         t.execPhaseStart + d1 + YELLOW_MS + d2,
         t.execPhaseStart + d1 + YELLOW_MS + d2 + YELLOW_MS}

WindowInstants(t) ==
    LET ahead == Around((IF t.sysState = STATE_COUNTING
                         THEN {t.cycleStartTime + CYCLE_TOTAL_MS}
                         ELSE IF t.sysState = STATE_EXECUTING_TIMES THEN PlanBoundaries(t)
                         ELSE {})
                        \cup (IF t.emerStart > 0 THEN {t.emerStart + EMERGENCY_GREEN_MS}
                                                 ELSE {}),
                        t.clock + 1)
    IN  IF ahead = {} THEN {t.clock + 1} ELSE ahead

\* the instants of W up to the first deadline: no segment goes by unsampled, as
\* loop() runs again within a few milliseconds
Soonest(W) == {n \in W : \A m \in W : n <= m + 1}

(***************************************************************************)
(* SpecPlan: no button is ever pressed; counts up to MaxCount; an          *)
(* iteration may also begin PlanStride after the last one.                 *)
(***************************************************************************)
MaxCount == 12

MaxPlanClock == 380000

PlanStride == 25 * 1000

NextPlan ==
    LET t == loop(Prog, "up", "up", -1, -1)
    IN  \E n \in WindowInstants(t) \cup {t.clock + PlanStride} :
            /\ n <= MaxPlanClock
            /\ Step(t, "up", "up", -1, -1, n - t.clock - 1)

SpecPlan == InitWindow(0..MaxCount) /\ [][NextPlan]_vars

(***************************************************************************)
(* SpecCycle: at most MaxCyclePresses iterations find a button LOW; the    *)
(* counts at the start are drawn from CycleCounts; the iteration after one *)
(* that found a button LOW may begin at once.                              *)
(***************************************************************************)
CycleCounts == {0, 3}

MaxCycleClock == 260000

MaxCyclePresses == 2

NextCycle ==
    \E btn \in ButtonInputs(Buttons, MaxCyclePresses) :
        LET t == loop(Prog, btn[1], btn[2], -1, -1)
        IN  \E n \in Soonest(WindowInstants(t))
                     \cup (IF btn # <<"up", "up">> THEN {t.clock + 1} ELSE {}) :
                /\ n <= MaxCycleClock
                /\ Step(t, btn[1], btn[2], -1, -1, n - t.clock - 1)

SpecCycle == InitWindow(CycleCounts) /\ [][NextCycle]_vars

(***************************************************************************)
(* SpecFrame: from setup() through two counting windows and the execution  *)
(* window between them, every segment of which is sampled; at most        *)
(* MaxFramePresses iterations find a button held down.                     *)
(***************************************************************************)
MaxFrameClock == 370000

MaxFramePresses == 1

NextFrame ==
    \E btn \in ButtonInputs({"up", "down"}, MaxFramePresses) :
        LET t == loop(Prog, btn[1], btn[2], -1, -1)
        IN  \E n \in Soonest(WindowInstants(t))
                     \cup (IF btn # <<"up", "up">> THEN {t.clock + 1} ELSE {}) :
                /\ n <= MaxFrameClock
                /\ Step(t, btn[1], btn[2], -1, -1, n - t.clock - 1)

SpecFrame == Init /\ [][NextFrame]_vars

(***************************************************************************)
(* SpecTraffic: from the middle of a counting window with the counts drawn *)
(* from CycleCounts, through the execution window and into the next        *)
(* counting window.  While the mode is not Counting a vehicle may stand in *)
(* front of both sensors (PassingEchoes); at most MaxTrafficPresses        *)
(* iterations find a button held down.                                     *)
(***************************************************************************)
MaxTrafficClock == 250000

MaxTrafficPresses == 1

\* no vehicle, or one halfway inside the detection range of both sensors
PassingEchoes ==
    IF sysState = STATE_COUNTING THEN {-1} ELSE {-1, DIST_THRESHOLD_CM \div 2}

NextTraffic ==
    \E btn \in ButtonInputs({"up", "down"}, MaxTrafficPresses), d \in PassingEchoes :
        LET t == loop(Prog, btn[1], btn[2], d, d)
        IN  \E n \in Soonest(WindowInstants(t))
                     \cup (IF btn # <<"up", "up">> THEN {t.clock + 1} ELSE {}) :
                /\ n <= MaxTrafficClock
                /\ Step(t, btn[1], btn[2], d, d, n - t.clock - 1)

SpecTraffic == InitWindow(CycleCounts) /\ [][NextTraffic]_vars

(***************************************************************************)
(* SpecLive: no button is ever pressed and loop() keeps being called: an   *)
(* iteration begins whenever the clock has not passed MaxLiveClock.        *)
(***************************************************************************)
LiveCounts == {0, 2}

MaxLiveClock == 500000

NextLive ==
    /\ clock <= MaxLiveClock
    /\ LET t == loop(Prog, "up", "up", -1, -1)
       IN  \E n \in WindowInstants(t) : Step(t, "up", "up", -1, -1, n - t.clock - 1)

\* weak fairness of NextLive, WF_vars(NextLive), with ENABLED <<NextLive>>_vars
\* written out: NextLive is enabled, and advances the clock, exactly when
\* clock <= MaxLiveClock.  The Arduino core calls loop() again as soon as it
\* returns.
LoopRunsAgain ==
    []<>(clock > MaxLiveClock) \/ []<><<NextLive>>_vars

SpecLive == InitWindow(LiveCounts) /\ [][NextLive]_vars /\ LoopRunsAgain

(***************************************************************************)
(* SpecGreen: the end of a counting window, and the plan computed there,   *)
(* for every pair of counts up to MaxGreenCount; no button is pressed.     *)
(***************************************************************************)
MaxGreenCount == 24

NextGreen ==
    /\ sysState = STATE_COUNTING
    /\ LET t == loop(Prog, "up", "up", -1, -1)
       IN  \E n \in WindowInstants(t) : Step(t, "up", "up", -1, -1, n - t.clock - 1)

SpecGreen == InitWindow(0..MaxGreenCount) /\ [][NextGreen]_vars

(***************************************************************************)
(* Properties.  Every state after the first is the state at the end of an  *)
(* iteration of loop(): tick holds what that iteration saw when it began,  *)
(* serial what it printed.                                                 *)
(***************************************************************************)
TriggeredInTick == Triggered(tick.btnA, tick.btnB)

RoadGreen(road) ==
    IF road = 1 THEN ledA = PHASE_GREEN /\ ledB = PHASE_RED
                ELSE ledA = PHASE_RED /\ ledB = PHASE_GREEN

\* C1: when an iteration observes the emergency signal of exactly one road R,
\* whatever the mode it began in, R is Green and the other road Red at its end,
\* and they stay so in every iteration that begins less than EMERGENCY_GREEN_MS
\* after the emergency began, unless a signal for the other road is observed.
C1_EmergencyGreenHeld ==
    (emerSeen.road # 0 /\ tick.now < emerSeen.at + EMERGENCY_GREEN_MS)
        => RoadGreen(emerSeen.road)

\* an emergency for road A interrupted road B's green of a plan, and an
\* iteration begins in the last millisecond of the ten seconds
C1_Witness ==
    /\ emerSeen.road = 1
    /\ emerSeen.from = STATE_EXECUTING_TIMES
    /\ emerSeen.ledB = PHASE_GREEN
    /\ tick.now = emerSeen.at + EMERGENCY_GREEN_MS - 1
    /\ TriggeredInTick = <<>>
    /\ RoadGreen(1)

\* C2: after an emergency is triggered at emerStart the mode is Emergency at the
\* end of that iteration and of every later one that begins before
\* emerStart + EMERGENCY_GREEN_MS.
C2_ModeStaysEmergency ==
    (emerSeen.road # 0 /\ tick.now < emerSeen.at + EMERGENCY_GREEN_MS)
        => (sysState = STATE_EMERGENCY /\ emerActive)

\* C3 as claimed: the first request wins.  When both signals are observed in one
\* iteration, road A's (read first) stands: A Green, B Red, emerStart sampled
\* after A's debounce delay.
C3_FirstRequestWins ==
    TriggeredInTick = <<1, 2>>
        => (RoadGreen(1) /\ emerStart = tick.now + BUTTON_DEBOUNCE_MS)

\* C3 as amended: the last request wins.  An iteration that observes an
\* emergency signal ends with the road of the last signal observed in it Green,
\* the other Red, and emerStart sampled at that last signal.
C3_LastRequestWins ==
    TriggeredInTick # <<>>
        => LET road == TriggeredInTick[Len(TriggeredInTick)]
               reads == IF road = 1 \/ tick.btnA = "up" THEN 1 ELSE 2
           IN  /\ RoadGreen(road)
               /\ emerStart = tick.now + reads * BUTTON_DEBOUNCE_MS

\* both buttons were held down in one iteration, and road B is Green
C3_Witness ==
    /\ TriggeredInTick = <<1, 2>>
    /\ RoadGreen(2)
    /\ emerStart = tick.now + 2 * BUTTON_DEBOUNCE_MS

\* C4: the plan computed at window expiry has greenDurationA in [30 s, 90 s] and
\* greenDurationA + greenDurationB = 120 s, whatever the counts.
C4_PlanWithinBounds ==
    /\ greenDurationA >= 30 * 1000
    /\ greenDurationA <= 90 * 1000
    /\ greenDurationA + greenDurationB = 120 * 1000

\* a plan computed from ten passes on road A and none on road B
C4_Witness ==
    /\ sysState = STATE_EXECUTING_TIMES
    /\ countA = 10 /\ countB = 0
    /\ greenDurationA = 89940 /\ greenDurationB = 30060

\* C5 as claimed: equal counts, zero included, give each road 60 s.
C5_EqualCountsSplitEvenly ==
    (sysState = STATE_EXECUTING_TIMES /\ countA = countB)
        => (greenDurationA = 60 * 1000 /\ greenDurationB = 60 * 1000)

\* C5 as amended: equal counts n >= 1 give road A between 59.85 s and 60 s and
\* road B the rest of the 120 s; with both counts zero the ratio is 0, road A
\* gets 30 s and road B 90 s.
C5_EqualCounts ==
    (sysState = STATE_EXECUTING_TIMES /\ countA = countB)
        => IF countA = 0
           THEN greenDurationA = 30 * 1000 /\ greenDurationB = 90 * 1000
           ELSE /\ greenDurationA >= 59850
                /\ greenDurationA <= 60 * 1000
                /\ greenDurationB = 120 * 1000 - greenDurationA

\* a plan computed from no pass at all
C5_Witness ==
    /\ sysState = STATE_EXECUTING_TIMES
    /\ countA = 0 /\ countB = 0
    /\ greenDurationA = 30 * 1000 /\ greenDurationB = 90 * 1000

\* C6: in an execution window with no emergency, an iteration that begins
\* elapsed ms after the plan started leaves the first road F and the other road
\* O at: [0, dF) F Green, O Red; [dF, dF+3s) F Yellow, O Red; [dF+3s, dF+3s+dO)
\* F Red, O Green; [dF+3s+dO, dF+dO+6s) F Red, O Yellow; from dF+dO+6s on the
\* mode becomes Counting and the lights are left as they were.
C6_Sequencer ==
    (tick.state = STATE_EXECUTING_TIMES /\ TriggeredInTick = <<>>)
        => LET elapsed == tick.now - execPhaseStart
               dF == IF executingAfirst THEN greenDurationA ELSE greenDurationB
               dO == IF executingAfirst THEN greenDurationB ELSE greenDurationA
               ledF == IF executingAfirst THEN ledA ELSE ledB
               ledO == IF executingAfirst THEN ledB ELSE ledA
           IN  IF elapsed < dF
               THEN sysState = STATE_EXECUTING_TIMES /\ ledF = PHASE_GREEN /\ ledO = PHASE_RED
               ELSE IF elapsed < dF + 3000
               THEN sysState = STATE_EXECUTING_TIMES /\ ledF = PHASE_YELLOW /\ ledO = PHASE_RED
               ELSE IF elapsed < dF + 3000 + dO
               THEN sysState = STATE_EXECUTING_TIMES /\ ledF = PHASE_RED /\ ledO = PHASE_GREEN
               ELSE IF elapsed < dF + dO + 6000
               THEN sysState = STATE_EXECUTING_TIMES /\ ledF = PHASE_RED /\ ledO = PHASE_YELLOW
               ELSE sysState = STATE_COUNTING /\ ledA = tick.ledA /\ ledB = tick.ledB

\* an iteration began exactly when road B's green of an A-first plan ended
C6_Witness ==
    /\ tick.state = STATE_EXECUTING_TIMES
    /\ sysState = STATE_EXECUTING_TIMES
    /\ executingAfirst
    /\ tick.now = execPhaseStart + greenDurationA + 3000 + greenDurationB
    /\ tick.ledB = PHASE_GREEN
    /\ ledA = PHASE_RED /\ ledB = PHASE_YELLOW

\* C7: a road's count is the number of presence episodes accepted in the window
\* that have ended, however many polls each spanned, and a count changes only by
\* one, on an accepted present-to-absent change of that road's sensor (or to
\* zero, on a reset).
C7_OnePassPerEpisode ==
    /\ countA = arrivals[1] - (IF sA.present THEN 1 ELSE 0)
    /\ countB = arrivals[2] - (IF sB.present THEN 1 ELSE 0)
    /\ countA # tick.countA =>
           \/ Printed(serial, MsgNewCycle) /\ countA = 0
           \/ /\ countA = tick.countA + 1
              /\ tick.presentA /\ ~sA.present
              /\ Printed(serial, MsgPresenceOff(1))
    /\ countB # tick.countB =>
           \/ Printed(serial, MsgNewCycle) /\ countB = 0
           \/ /\ countB = tick.countB + 1
              /\ tick.presentB /\ ~sB.present
              /\ Printed(serial, MsgPresenceOff(2))

\* road A's first episode spanned three polls or more and was counted once
C7_Witness ==
    /\ countA = 1
    /\ arrivals[1] = 1
    /\ ~sA.present
    /\ episode[1] >= 3
    /\ Printed(serial, MsgPass(1))

\* C8: whenever the mode becomes Counting the counts are (0,0) and both sensor
\* states are cleared, and the mode becomes Counting in no other way; an
\* iteration that observes an emergency computes no plan and discards the counts.
C8_CountingStartsClean ==
    /\ Printed(serial, MsgNewCycle) =>
           /\ sysState = STATE_COUNTING
           /\ countA = 0 /\ countB = 0
           /\ sA = SensorState /\ sB = SensorState
    /\ (tick.state # STATE_COUNTING /\ sysState = STATE_COUNTING) =>
           Printed(serial, MsgNewCycle)
    /\ TriggeredInTick # <<>> =>
           /\ ~Printed(serial, MsgExecution)
           /\ Printed(serial, MsgNewCycle)
    /\ Printed(serial, MsgExecution) =>
           /\ countA = tick.countA /\ countB = tick.countB
           /\ greenDurationA = computeGreenMs(countA, countB)

\* a counting window with passes counted on road A was interrupted by an emergency
C8_Witness ==
    /\ tick.state = STATE_COUNTING
    /\ tick.countA > 0
    /\ TriggeredInTick # <<>>
    /\ sysState = STATE_COUNTING
    /\ countA = 0 /\ countB = 0

\* C9: with countB > countA at window expiry and no emergency, road B gets more
\* green time than road A, is served first, and road A is not Green after any
\* iteration that begins before B's green and yellow segments have elapsed.
C9_BusierRoadFirst ==
    (sysState = STATE_EXECUTING_TIMES /\ countB > countA)
        => /\ greenDurationB > greenDurationA
           /\ ~executingAfirst
           /\ ledA = PHASE_GREEN => tick.now >= execPhaseStart + greenDurationB + 3000

\* countA = 0, countB = 10: road A Green after B's 90 s green and 3 s yellow
C9_Witness ==
    /\ sysState = STATE_EXECUTING_TIMES
    /\ countA = 0 /\ countB = 10
    /\ greenDurationB = 90 * 1000
    /\ ledA = PHASE_GREEN /\ ledB = PHASE_RED

C11_BothRoadsWithinLimits ==
    \A g \in {greenDurationA, greenDurationB} : 30 * 1000 <= g /\ g <= 90 * 1000

\* a plan from no pass on road A and ten on road B: the two limits are met
C11_Witness ==
    /\ sysState = STATE_EXECUTING_TIMES
    /\ Printed(serial, MsgExecution)
    /\ countA = 0 /\ countB = 10
    /\ greenDurationA = 30 * 1000 /\ greenDurationB = 90 * 1000

\* C15: the road served first is the one with the greater count at window
\* expiry, road A on equal counts (0 and 0 included): road B is served first
\* exactly when countB > countA, and the plan starts with the first road Green
\* and the other Red.
C15_FirstRoad ==
    sysState = STATE_EXECUTING_TIMES
        => /\ executingAfirst <=> ~(countB > countA)
           /\ Printed(serial, MsgExecution) => RoadGreen(IF countB > countA THEN 2 ELSE 1)

\* a plan computed from equal counts starts with road A Green
C15_Witness ==
    /\ sysState = STATE_EXECUTING_TIMES
    /\ Printed(serial, MsgExecution)
    /\ countA = 4 /\ countB = 4
    /\ executingAfirst
    /\ RoadGreen(1)

\* C19: at the end of every iteration, whatever the readings and the emergency
\* signals so far, at least one of the two roads shows Red: never both Green,
\* never one Green or Yellow while the other is Green or Yellow.
C19_OneRoadRed ==
    ledA = PHASE_RED \/ ledB = PHASE_RED

\* an emergency for road A was raised while road B showed Yellow
C19_Witness ==
    /\ TriggeredInTick = <<1>>
    /\ tick.state = STATE_EXECUTING_TIMES
    /\ tick.ledA = PHASE_RED /\ tick.ledB = PHASE_YELLOW
    /\ ledA = PHASE_GREEN /\ ledB = PHASE_RED

\* C20: while the mode is Counting no light is changed: an iteration that begins
\* in Counting before the window has expired and observes no emergency signal
\* leaves the mode and both lights as they were.  So the lights of a counting
\* window are those it was entered with: both Red after startup, the
\* second-served road Yellow and the other Red after a completed execution
\* window, the emergency road Green and the other Red after an emergency.
C20_CountingLeavesLights ==
    /\ (/\ tick.state = STATE_COUNTING
        /\ TriggeredInTick = <<>>
        /\ tick.now - cycleStartTime < CYCLE_TOTAL_MS)
           => (sysState = STATE_COUNTING /\ ledA = tick.ledA /\ ledB = tick.ledB)
    /\ (sysState = STATE_COUNTING /\ execPhaseStart = 0 /\ emerStart = 0)
           => (ledA = PHASE_RED /\ ledB = PHASE_RED)
    /\ (tick.state = STATE_EXECUTING_TIMES /\ sysState = STATE_COUNTING
        /\ TriggeredInTick = <<>>)
           => IF executingAfirst THEN ledA = PHASE_RED /\ ledB = PHASE_YELLOW
                                 ELSE ledA = PHASE_YELLOW /\ ledB = PHASE_RED
    /\ Printed(serial, MsgEmergencyEnded)
           => (sysState = STATE_COUNTING
               /\ RoadGreen(IF TriggeredInTick # <<>>
                            THEN TriggeredInTick[Len(TriggeredInTick)]
                            ELSE emerSeen.road))

\* the last iteration of the counting window that follows a completed execution
\* window: road B, served second, still shows Yellow
C20_Witness ==
    /\ tick.state = STATE_COUNTING /\ sysState = STATE_COUNTING
    /\ emerStart = 0
    /\ execPhaseStart > 0
    /\ tick.now = cycleStartTime + CYCLE_TOTAL_MS - 1
    /\ ledA = PHASE_RED /\ ledB = PHASE_YELLOW

\* C17: if no emergency signal is ever asserted the controller never gets
\* stuck.  An iteration that begins in Counting starts the plan if and only if
\* now - cycleStartTime >= 120 s; every counting window leads to an execution
\* window and every execution window leads back to Counting (for every window
\* that ends before the iterations stop at MaxLiveClock).
C17_NeverStuck ==
    /\ [](tick.state = STATE_COUNTING
            => (sysState = STATE_EXECUTING_TIMES
                    <=> tick.now - cycleStartTime >= CYCLE_TOTAL_MS))
    /\ (sysState = STATE_COUNTING
        /\ cycleStartTime + CYCLE_TOTAL_MS + 2 * PULSE_TIMEOUT_MS <= MaxLiveClock)
           ~> (sysState = STATE_EXECUTING_TIMES)
    /\ (sysState = STATE_EXECUTING_TIMES
        /\ execPhaseStart + greenDurationA + greenDurationB + 2 * YELLOW_MS <= MaxLiveClock)
           ~> (sysState = STATE_COUNTING)

\* the second plan starts: Counting, ExecutingPlan, Counting, ExecutingPlan
C17_Witness ==
    /\ tick.state = STATE_COUNTING
    /\ sysState = STATE_EXECUTING_TIMES
    /\ tick.now - cycleStartTime >= CYCLE_TOTAL_MS
    /\ cycleStartTime >= 2 * CYCLE_TOTAL_MS

\* C12: a sensor fed a constant raw reading (every poll present, or every poll
\* absent) for any number of polls within one counting window changes its
\* `present` flag at most once and has at most one pass counted during the run.
C12_SteadyReading ==
    \A road \in {1, 2} : steady[road].changes <= 1 /\ steady[road].passes <= 1

\* a present sensor reads absent poll after poll: the first absent reading is
\* held back by the debounce, a later one is accepted and counted, once
C12_Witness ==
    /\ ~steady[1].present
    /\ steady[1].polls >= LongRun
    /\ steady[1].changes = 1 /\ steady[1].passes = 1
    /\ countA = 1 /\ ~sA.present
    /\ ~Printed(serial, MsgPass(1))

\* C16: for each sensor waitingForAbsence is true only if `present` is true, and
\* it is false for both sensors whenever a new counting window starts.
C16_WaitingOnlyWhilePresent ==
    /\ sA.waitingForAbsence => sA.present
    /\ sB.waitingForAbsence => sB.present
    /\ Printed(serial, MsgNewCycle) => (~sA.waitingForAbsence /\ ~sB.waitingForAbsence)

\* road A has a vehicle in front of the sensor, road B's vehicle has left and
\* been counted
C16_Witness ==
    /\ sA.present /\ sA.waitingForAbsence
    /\ ~sB.present /\ ~sB.waitingForAbsence
    /\ countB = 1

\* C13: a change of a sensor's `present` flag is accepted only when the state
\* being left has held for at least the debounce interval of the direction, the
\* first change after a counting window starts included, where the absent state
\* has held only since the reset of the sensor state (the window opened by
\* setup() aside, where the sensors have been absent since power-up).
C13_StateHeldBeforeChange ==
    /\ (sA.present # tick.presentA /\ ~Printed(serial, MsgNewCycle)
        /\ cycleStartTime > SETUP_DELAY_MS)
           => LET since == IF tick.lastA > cycleStartTime THEN tick.lastA
                                                          ELSE cycleStartTime
              IN  sA.lastChange - since >= (IF sA.present THEN PRESENCE_DEBOUNCE_MS
                                                          ELSE ABSENCE_DEBOUNCE_MS)
    /\ (sB.present # tick.presentB /\ ~Printed(serial, MsgNewCycle)
        /\ cycleStartTime > SETUP_DELAY_MS)
           => LET since == IF tick.lastB > cycleStartTime THEN tick.lastB
                                                          ELSE cycleStartTime
              IN  sB.lastChange - since >= (IF sB.present THEN PRESENCE_DEBOUNCE_MS
                                                          ELSE ABSENCE_DEBOUNCE_MS)

\* C18: any two consecutive reads of the sensors are at least SENSOR_POLL_MS
\* apart, a restart of the counting window between them or not: an iteration
\* that polls samples now at least 60 ms after the previous one that polled.
C18_ReadsSpaced ==
    tick.polled => tick.gap >= SENSOR_POLL_MS

\* C14 as claimed: the presence computed from a reading is true if and only if
\* the read did not time out and 0 <= d <= 60, a distance of 0 included.  Seen
\* at the first poll of a sensor in a window, whose reading is taken at once.
C14_ZeroIsPresent ==
    /\ (tick.polled /\ tick.lastA = 0)
           => (sA.present <=> (tick.dA # -1 /\ 0 <= tick.dA /\ tick.dA <= DIST_THRESHOLD_CM))
    /\ (tick.polled /\ tick.lastB = 0)
           => (sB.present <=> (tick.dB # -1 /\ 0 <= tick.dB /\ tick.dB <= DIST_THRESHOLD_CM))

\* C14 as amended: the presence computed from a reading is true if and only if
\* 0 < d <= 60: a timed-out read (-1) and a distance of 0 are both absent.  The
\* first reading of a sensor in a window sets `present` to exactly that, and
\* `present` never changes to a value other than the one computed from the
\* reading of the same poll.
C14_PresenceOfReading ==
    /\ (tick.polled /\ tick.lastA = 0)
           => (sA.present <=> (0 < tick.dA /\ tick.dA <= DIST_THRESHOLD_CM))
    /\ (tick.polled /\ tick.lastB = 0)
           => (sB.present <=> (0 < tick.dB /\ tick.dB <= DIST_THRESHOLD_CM))
    /\ (sA.present # tick.presentA /\ ~Printed(serial, MsgNewCycle))
           => (tick.polled /\ (sA.present <=> (0 < tick.dA /\ tick.dA <= DIST_THRESHOLD_CM)))
    /\ (sB.present # tick.presentB /\ ~Printed(serial, MsgNewCycle))
           => (tick.polled /\ (sB.present <=> (0 < tick.dB /\ tick.dB <= DIST_THRESHOLD_CM)))

\* sensor A measured 0 cm and stays absent, sensor B measured 1 cm and is present
C14_Witness ==
    /\ tick.polled
    /\ tick.dA = 0 /\ tick.lastA = 0 /\ ~sA.present
    /\ tick.dB = 1 /\ tick.lastB = 0 /\ sB.present

\* C21: an iteration that begins in ExecutingPlan or Emergency mode, or in which
\* an emergency signal puts the controller in Emergency mode, reads no sensor
\* and leaves the plan (greenDurationA, greenDurationB, executingAfirst) as it
\* was; it leaves the counts and the sensor states as they were too, unless it
\* starts a new counting cycle, and then the counts are 0 and the sensor states
\* those of SensorState().  A vehicle in front of the sensors meanwhile is not
\* counted.
C21_PlanWindowFrame ==
    [][(sysState # STATE_COUNTING \/ Triggered(tick'.btnA, tick'.btnB) # <<>>)
          => /\ ~tick'.polled
             /\ greenDurationA' = greenDurationA
             /\ greenDurationB' = greenDurationB
             /\ executingAfirst' = executingAfirst
             /\ \/ /\ countA' = countA /\ countB' = countB
                   /\ sA' = sA /\ sB' = sB
                \/ /\ sysState' = STATE_COUNTING
                   /\ Printed(serial', MsgNewCycle)
                   /\ countA' = 0 /\ countB' = 0
                   /\ sA' = SensorState /\ sB' = SensorState]_vars

\* the last segment of an execution window entered with three vehicles on road
\* A and none on road B: the counts, the sensor states and the plan computed
\* from them are still those the window began with
C21_Witness ==
    /\ tick.state = STATE_EXECUTING_TIMES /\ sysState = STATE_EXECUTING_TIMES
    /\ ~tick.polled
    /\ countA = 3 /\ countB = 0
    /\ sA.lastChange > 0 /\ ~sA.present
    /\ executingAfirst
    /\ greenDurationA = computeGreenMs(3, 0)
    /\ greenDurationB = CYCLE_TOTAL_MS - greenDurationA
    /\ ledA = PHASE_RED /\ ledB = PHASE_YELLOW

====
